---- MODULE Spec2Model ----
(***************************************************************************)
(* Model of excel_processor_app_en.process_excel and of the "Process Data" *)
(* handler of app.py.                                                      *)
(*                                                                         *)
(* Numbers.  SCORE values are decimal numbers with two places and are kept *)
(* as an integer count of hundredths.  The group mean is computed by       *)
(* pandas in IEEE-754 binary64 arithmetic, so the mean and the comparison  *)
(* SCORE > AVG_SCORE are modelled on binary64 values: a binary64 value is  *)
(* the record [neg, m, e] standing for (-1)^neg * m * 2^e, with m a        *)
(* natural number written as a little-endian sequence of limbs that is      *)
(* either empty (zero) or odd (so every value has one representation).     *)
(***************************************************************************)
EXTENDS Integers, Sequences, FiniteSets, TLC

VARIABLES
  file,           \* the uploaded sheet: [columns, rows]
  pc,             \* "uploaded": a sheet waits to be processed; "done": it has been
  pin,            \* the pin argument of the last call: <<>> (None) or <<p>>
  df,             \* process_excel's local df after the merge, <<>> if not reached
  result,         \* <<the returned frame>>, or <<>> when the call raised
  outcome,        \* [status, error] of the last call
  page,           \* what the page shows: "idle", "success", "warning", "error"
  session_state,  \* st.session_state
  rootHandlers,   \* the streams of the root logger's handlers
  streams,        \* the contents of those streams
  emitted,        \* the records the last call passed to its logger
  invocations     \* the number of calls of process_excel in this process

vars == <<file, pc, pin, df, result, outcome, page, session_state,
          rootHandlers, streams, emitted, invocations>>

-----------------------------------------------------------------------------
(* Natural numbers as little-endian sequences of 15-bit limbs, without     *)
(* high zero limbs (TLC's integers are 32 bits wide, a binary64            *)
(* significand is 53).                                                     *)

LimbBits == 15

Base == 32768

Pow2 == <<1, 2, 4, 8, 16, 32, 64, 128, 256, 512, 1024, 2048, 4096, 8192, 16384>>

Zeros(k) == [i \in 1..k |-> 0]

Limb(a, i) == IF i <= Len(a) THEN a[i] ELSE 0

RECURSIVE Strip(_)
Strip(a) ==
  IF a = <<>> \/ a[Len(a)] # 0 THEN a ELSE Strip(SubSeq(a, 1, Len(a) - 1))

RECURSIVE IntToLimbs(_)
IntToLimbs(n) == IF n = 0 THEN <<>> ELSE <<n % Base>> \o IntToLimbs(n \div Base)

RECURSIVE AddFrom(_, _, _, _)
AddFrom(a, b, i, c) ==
  IF i > Len(a) /\ i > Len(b)
  THEN IF c = 1 THEN <<1>> ELSE <<>>
  ELSE LET s == Limb(a, i) + Limb(b, i) + c
       IN  <<s % Base>> \o AddFrom(a, b, i + 1, s \div Base)

BAdd(a, b) == AddFrom(a, b, 1, 0)

\* a - b for a >= b
RECURSIVE SubFrom(_, _, _, _)
SubFrom(a, b, i, c) ==
  IF i > Len(a)
  THEN <<>>
  ELSE LET s == Limb(a, i) - Limb(b, i) - c
       IN  <<s % Base>> \o SubFrom(a, b, i + 1, IF s < 0 THEN 1 ELSE 0)

BSub(a, b) == Strip(SubFrom(a, b, 1, 0))

\* -1, 0, 1 as a < b, a = b, a > b
RECURSIVE CmpFrom(_, _, _)
CmpFrom(a, b, i) ==
  IF i = 0 THEN 0
  ELSE IF a[i] > b[i] THEN 1
  ELSE IF a[i] < b[i] THEN -1
  ELSE CmpFrom(a, b, i - 1)

BCmp(a, b) ==
  IF Len(a) > Len(b) THEN 1
  ELSE IF Len(a) < Len(b) THEN -1
  ELSE CmpFrom(a, b, Len(a))

\* a * c for 0 <= c < Base
RECURSIVE MulFrom(_, _, _, _)
MulFrom(a, c, i, carry) ==
  IF i > Len(a)
  THEN IF carry = 0 THEN <<>> ELSE <<carry>>
  ELSE LET s == a[i] * c + carry
       IN  <<s % Base>> \o MulFrom(a, c, i + 1, s \div Base)

MulSmall(a, c) == Strip(MulFrom(a, c, 1, 0))

\* long division of a by d, 1 <= d <= Base, most significant limb first
RECURSIVE DivFrom(_, _, _, _)
DivFrom(a, d, i, r) ==
  IF i = 0 THEN [q |-> <<>>, r |-> r]
  ELSE LET cur  == r * Base + a[i]
           rest == DivFrom(a, d, i - 1, cur % d)
       IN  [q |-> Append(rest.q, cur \div d), r |-> rest.r]

DivSmall(a, d) ==
  LET qr == DivFrom(a, d, Len(a), 0)
  IN  [q |-> Strip(qr.q), r |-> qr.r]

\* a * 2^k and the integer part of a / 2^k
Shl(a, k) ==
  IF a = <<>> THEN <<>>
  ELSE Zeros(k \div LimbBits) \o MulSmall(a, Pow2[(k % LimbBits) + 1])

Shr(a, k) ==
  IF k \div LimbBits >= Len(a) THEN <<>>
  ELSE DivSmall(SubSeq(a, (k \div LimbBits) + 1, Len(a)), Pow2[(k % LimbBits) + 1]).q

\* bit i of a, the least significant being bit 1
BitAt(a, i) ==
  (Limb(a, ((i - 1) \div LimbBits) + 1) \div Pow2[((i - 1) % LimbBits) + 1]) % 2

BitLen(a) ==
  IF a = <<>> THEN 0
  ELSE (Len(a) - 1) * LimbBits
       + (CHOOSE j \in 1..LimbBits :
            Pow2[j] <= a[Len(a)] /\ (j = LimbBits \/ a[Len(a)] < Pow2[j + 1]))

-----------------------------------------------------------------------------
(* IEEE-754 binary64 values (no overflow, underflow or infinity arises in  *)
(* the range of SCORE values) and the operations the group mean uses.       *)

MantissaBits == 53

GuardBits == 64

DZero == [neg |-> FALSE, m |-> <<>>, e |-> 0]

\* the one representation of (-1)^neg * m * 2^e: m odd, or zero
Canon(neg, m, e) ==
  IF m = <<>> THEN DZero
  ELSE LET tz == CHOOSE z \in 0..BitLen(m) :
                   BitAt(m, z + 1) = 1 /\ \A i \in 1..z : BitAt(m, i) = 0
       IN  [neg |-> neg, m |-> Shr(m, tz), e |-> e + tz]

\* round m * 2^e (plus a nonzero remainder below the last bit when sticky)
\* to the nearest value with a 53-bit significand, ties to even
Round53(neg, m, e, sticky) ==
  IF BitLen(m) <= MantissaBits THEN Canon(neg, m, e)
  ELSE LET sh   == BitLen(m) - MantissaBits
           q    == Shr(m, sh)
           rest == sticky \/ \E i \in 1..(sh - 1) : BitAt(m, i) = 1
           up   == BitAt(m, sh) = 1 /\ (rest \/ BitAt(q, 1) = 1)
       IN  Canon(neg, IF up THEN BAdd(q, <<1>>) ELSE q, e + sh)

Min2(a, b) == IF a < b THEN a ELSE b

DAdd(x, y) ==
  LET e0 == Min2(x.e, y.e)
      mx == Shl(x.m, x.e - e0)
      my == Shl(y.m, y.e - e0)
      c  == BCmp(mx, my)
  IN  IF x.m = <<>> THEN y
      ELSE IF y.m = <<>> THEN x
      ELSE IF x.neg = y.neg THEN Round53(x.neg, BAdd(mx, my), e0, FALSE)
      ELSE IF c = 0 THEN DZero
      ELSE IF c > 0 THEN Round53(x.neg, BSub(mx, my), e0, FALSE)
      ELSE Round53(y.neg, BSub(my, mx), e0, FALSE)

DNeg(x) == IF x.m = <<>> THEN x ELSE [x EXCEPT !.neg = ~x.neg]

DSub(x, y) == DAdd(x, DNeg(y))

\* x / n for a count 1 <= n <= Base
DDivN(x, n) ==
  LET d == DivSmall(Shl(x.m, GuardBits), n)
  IN  Round53(x.neg, d.q, x.e - GuardBits, d.r # 0)

\* the binary64 value nearest to num / den (1 <= den <= Base)
DFromRatio(num, den) ==
  LET d == DivSmall(Shl(IntToLimbs(IF num < 0 THEN -num ELSE num), GuardBits), den)
  IN  Round53(num < 0, d.q, -GuardBits, d.r # 0)

\* x > y
DGt(x, y) ==
  LET e0 == Min2(x.e, y.e)
      c  == BCmp(Shl(x.m, x.e - e0), Shl(y.m, y.e - e0))
  IN  IF x.neg /= y.neg THEN y.neg
      ELSE IF x.neg THEN c < 0
      ELSE c > 0

-----------------------------------------------------------------------------
(* Cells and numbers.  A cell of the uploaded sheet is [k, n, d]: k is     *)
(* "num" for a numeric cell of value n / d, "str" for a text cell holding  *)
(* the numeral of n / d, "text" for any other text.  A numeric column of a *)
(* frame holds [k |-> "num", n, d] or NaN.                                 *)

Num(n, d) == [k |-> "num", n |-> n, d |-> d]

NaN == [k |-> "nan", n |-> 0, d |-> 1]

StrCell(n) == [k |-> "str", n |-> n, d |-> 1]

TextCell == [k |-> "text", n |-> 0, d |-> 1]

IsNaN(v) == v.k = "nan"

\* pd.to_numeric(column, errors='coerce') on one cell
ToNumeric(c) == IF c.k \in {"num", "str"} THEN Num(c.n, c.d) ELSE NaN

Range(s) == {s[i] : i \in 1..Len(s)}

\* f with all its values computed: TLC keeps a function written [x \in S |-> e]
\* as the expression e and evaluates it again at every application
Eager(f) == f @@ <<>>

RECURSIVE SelectIdx(_, _, _)
\* the indices i of 1..n, in order, for which keep[i] holds
SelectIdx(keep, i, n) ==
  IF i > n THEN <<>>
  ELSE IF keep[i] THEN <<i>> \o SelectIdx(keep, i + 1, n)
  ELSE SelectIdx(keep, i + 1, n)

Pick(rows, idx) == Eager([j \in 1..Len(idx) |-> rows[idx[j]]])

\* boolean indexing df[mask]: the rows whose mask is true, in order
Mask(rows, keep) == Pick(rows, SelectIdx(keep, 1, Len(rows)))

\* a row with one more column, or one column overwritten
WithCol(r, c, v) == (c :> v) @@ r

\* df[c] = vals, one value per row
SetCol(rows, c, vals) == Eager([i \in 1..Len(rows) |-> WithCol(rows[i], c, vals[i])])

-----------------------------------------------------------------------------
(* process_excel, stage by stage.                                          *)

ALLOWED_OVACLS == (201..212) \cup {234, 295}

required_columns == <<"OVACLS", "NEIGHBORHOOD", "BUILDING_SQ_FT", "CURRENT_BUILDING">>

\* variant of MissingColumns that stops at the first missing column
FirstMissingColumn(columns) ==
  SubSeq(Mask(required_columns,
              [i \in 1..Len(required_columns) |-> required_columns[i] \notin Range(columns)]),
         1, 1)

\* [col for col in required_columns if col not in df.columns]
MissingColumns(columns) ==
  Mask(required_columns,
       [i \in 1..Len(required_columns) |-> required_columns[i] \notin Range(columns)])

\* df["OVACLS"] = pd.to_numeric(df["OVACLS"], errors='coerce')
CoerceOvacls(rows) ==
  SetCol(rows, "OVACLS", [i \in 1..Len(rows) |-> ToNumeric(rows[i]["OVACLS"])])

\* variant of IsAllowed that tests the range of the codes, not the list
IsAllowedRange(v) == v.k = "num" /\ v.d = 1 /\ v.n >= 201 /\ v.n <= 295

IsAllowed(v) == v.k = "num" /\ v.d = 1 /\ v.n \in ALLOWED_OVACLS

\* df[df["OVACLS"].isin(ALLOWED_OVACLS)]
Restrict(rows) == Mask(rows, [i \in 1..Len(rows) |-> IsAllowed(rows[i]["OVACLS"])])

\* to_numeric of CURRENT_BUILDING and BUILDING_SQ_FT
CoerceBuilding(rows) ==
  SetCol(SetCol(rows, "CURRENT_BUILDING",
                [i \in 1..Len(rows) |-> ToNumeric(rows[i]["CURRENT_BUILDING"])]),
         "BUILDING_SQ_FT", [i \in 1..Len(rows) |-> ToNumeric(rows[i]["BUILDING_SQ_FT"])])

\* 0.0001 is 1 / EpsilonInverse
EpsilonInverse == 10000

\* variant of ReplaceZeroSqFt that replaces every area that is not positive
ReplaceNonPositiveSqFt(rows) ==
  SetCol(rows, "BUILDING_SQ_FT",
         [i \in 1..Len(rows) |->
            IF rows[i]["BUILDING_SQ_FT"].k = "num" /\ rows[i]["BUILDING_SQ_FT"].n <= 0
            THEN Num(1, EpsilonInverse)
            ELSE rows[i]["BUILDING_SQ_FT"]])

\* df.loc[zero_sq_ft, "BUILDING_SQ_FT"] = 0.0001
ReplaceZeroSqFt(rows) ==
  SetCol(rows, "BUILDING_SQ_FT",
         [i \in 1..Len(rows) |->
            IF rows[i]["BUILDING_SQ_FT"].k = "num" /\ rows[i]["BUILDING_SQ_FT"].n = 0
            THEN Num(1, EpsilonInverse)
            ELSE rows[i]["BUILDING_SQ_FT"]])

\* num / den (den > 0) rounded to the nearest integer, halves to even
RoundHalfEven(num, den) ==
  LET q == num \div den
      r == num - q * den
  IN  IF 2 * r < den THEN q
      ELSE IF 2 * r > den THEN q + 1
      ELSE IF q % 2 = 0 THEN q ELSE q + 1

\* variant of ScoreOf that scores a missing CURRENT_BUILDING as 0
ScoreOfMissingAsZero(r) ==
  LET cb == r["CURRENT_BUILDING"]
      sq == r["BUILDING_SQ_FT"]
  IN  IF sq.k = "num" /\ sq.n > 0 /\ ~IsNaN(cb)
      THEN Num(RoundHalfEven(100 * cb.n * sq.d, cb.d * sq.n), 100)
      ELSE Num(0, 100)

\* round(row["CURRENT_BUILDING"] / row["BUILDING_SQ_FT"], 2)
\*   if row["BUILDING_SQ_FT"] > 0 else 0
\* in hundredths; a NaN numerator gives NaN, a NaN area fails the test
ScoreOf(r) ==
  LET cb == r["CURRENT_BUILDING"]
      sq == r["BUILDING_SQ_FT"]
  IN  IF sq.k = "num" /\ sq.n > 0
      THEN IF IsNaN(cb) THEN NaN
           ELSE Num(RoundHalfEven(100 * cb.n * sq.d, cb.d * sq.n), 100)
      ELSE Num(0, 100)

AddScore(rows) == SetCol(rows, "SCORE", [i \in 1..Len(rows) |-> ScoreOf(rows[i])])

\* astype(str) of a numeric column: an int64 column prints "201", a float64
\* column (one that held a NaN after the coercion) prints "201.0"
NumberStr(v, isFloat) == ToString(v.n) \o (IF isFloat THEN ".0" ELSE "")

\* astype(str) of the NEIGHBORHOOD cell
CellStr(c) == IF c.k = "text" THEN "text" ELSE ToString(c.n)

\* df['GROUP'] = df['OVACLS'].astype(str) + '_' + df['NEIGHBORHOOD'].astype(str)
AddGroup(rows, isFloat) ==
  SetCol(rows, "GROUP",
         [i \in 1..Len(rows) |->
            NumberStr(rows[i]["OVACLS"], isFloat) \o "_" \o CellStr(rows[i]["NEIGHBORHOOD"])])

Dbl(x) == [k |-> "dbl", neg |-> x.neg, m |-> x.m, e |-> x.e]

NaNDbl == [k |-> "nan", neg |-> FALSE, m |-> <<>>, e |-> 0]

\* pandas group_mean: Kahan summation of the values that are not NaN, in row
\* order, then the sum divided by their count
RECURSIVE KahanSum(_, _, _, _)
KahanSum(xs, i, sumx, compensation) ==
  IF i > Len(xs) THEN sumx
  ELSE LET y == DSub(xs[i], compensation)
           t == DAdd(sumx, y)
       IN  KahanSum(xs, i + 1, t, DSub(DSub(t, sumx), y))

\* the mean of a group whose non-NaN SCOREs are hs (hundredths, row order)
GroupMean(hs) ==
  IF hs = <<>> THEN NaNDbl
  ELSE Dbl(DDivN(KahanSum([i \in 1..Len(hs) |-> DFromRatio(hs[i], 100)],
                          1, DZero, DZero),
                 Len(hs)))

\* SCORE > AVG_SCORE on the binary64 values the two columns hold
ScoreGt(h, avg) == DGt(DFromRatio(h, 100), avg)

-----------------------------------------------------------------------------
(* The sheets the model uploads.                                           *)

MaxRows == 4

MaxEdgeRows == 3

MaxShuffledRows == 2

MaxSessionRows == 2

MaxInvocations == 2

FullColumns == <<"PIN", "OVACLS", "NEIGHBORHOOD", "BUILDING_SQ_FT", "CURRENT_BUILDING">>

\* the same columns in another order, PIN in the middle
ShuffledColumns == <<"CURRENT_BUILDING", "NEIGHBORHOOD", "PIN", "BUILDING_SQ_FT", "OVACLS">>

RowOf(o, n, cb, sq) ==
  [OVACLS |-> o, NEIGHBORHOOD |-> Num(n, 1), CURRENT_BUILDING |-> cb, BUILDING_SQ_FT |-> sq]

\* <<OVACLS, NEIGHBORHOOD>> of the allowed rows: 202 comes as the text "202"
AllowedKeys == { <<Num(201, 1), 1>>, <<Num(201, 1), 2>>, <<StrCell(202), 1>> }

\* <<CURRENT_BUILDING, BUILDING_SQ_FT>> with the scores 0.35 and 0.23
PlainPairs == { <<Num(35, 1), Num(100, 1)>>, <<Num(70, 1), Num(300, 1)>> }

\* a zero area, a text value in either column, a negative area, a negative
\* CURRENT_BUILDING (the score -0.35, below the 0 of a record without area)
EdgePairs ==
  { <<Num(35, 1), Num(0, 1)>>, <<TextCell, Num(100, 1)>>,
    <<Num(35, 1), TextCell>>, <<Num(35, 1), Num(-100, 1)>>,
    <<Num(-35, 1), Num(100, 1)>> }

\* rows the restriction removes: a code outside the list, a text code
OtherRows ==
  { RowOf(Num(213, 1), 1, Num(70, 1), Num(100, 1)),
    RowOf(TextCell, 1, Num(70, 1), Num(100, 1)) }

PlainRows == { RowOf(key[1], key[2], b[1], b[2]) : key \in AllowedKeys, b \in PlainPairs }

EdgeRows == { RowOf(Num(201, 1), 1, b[1], b[2]) : b \in EdgePairs }

\* the rows of the sheets with edge cases: one group, every kind of cell
RowKinds ==
  { RowOf(Num(201, 1), 1, b[1], b[2]) : b \in PlainPairs } \cup EdgeRows \cup OtherRows

SessionRowKinds ==
  { RowOf(Num(201, 1), 1, Num(35, 1), Num(100, 1)),
    RowOf(Num(201, 1), 1, Num(70, 1), Num(300, 1)),
    RowOf(Num(213, 1), 1, Num(70, 1), Num(100, 1)) }

TablesOf(kinds, n) == UNION { [1..j -> kinds] : j \in 0..n }

\* the sheet with these columns; PIN is the number of the row in the sheet
MkFile(columns, t) ==
  [columns |-> columns,
   rows    |-> [i \in 1..Len(t) |->
                  [c \in Range(columns) |-> IF c = "PIN" THEN Num(i, 1) ELSE t[i][c]]]]

\* the column lists that lack at least one required column
PartialColumns ==
  { Mask(FullColumns, [i \in 1..Len(FullColumns) |-> FullColumns[i] \in S]) :
      S \in { T \cup {"PIN"} : T \in (SUBSET Range(required_columns)) \ {Range(required_columns)} } }

\* up to MaxRows plain rows in three groups, or up to MaxEdgeRows rows of
\* one group and of any kind, or the columns in another order, or a sheet
\* that lacks a required column
Files ==
  { MkFile(FullColumns, t) : t \in TablesOf(PlainRows, MaxRows) \cup TablesOf(RowKinds, MaxEdgeRows) }
    \cup { MkFile(ShuffledColumns, t) : t \in TablesOf(PlainRows, MaxShuffledRows) }
    \cup { MkFile(cols, t) : cols \in PartialColumns, t \in TablesOf(OtherRows, 1) }

SessionFiles ==
  { MkFile(FullColumns, t) : t \in TablesOf(SessionRowKinds, MaxSessionRows) }
    \cup { MkFile(<<"PIN", "OVACLS">>, <<>>) }

PinArgs == { <<2>> }

-----------------------------------------------------------------------------
(* The binary64 results are computed once, for every SCORE and every       *)
(* sequence of SCOREs the sheets above can produce, and looked up after.    *)

ScoreValues ==
  { ScoreOf(ReplaceZeroSqFt(CoerceBuilding(<<k>>))[1]).n :
      k \in PlainRows \cup RowKinds \cup SessionRowKinds }

ScoreSeqs == UNION { [1..j -> ScoreValues] : j \in 0..MaxRows }

MeanTable == [hs \in ScoreSeqs |-> GroupMean(hs)] @@ <<>>

MeanOfScores(hs) == MeanTable[hs]

GtTable ==
  [p \in { <<h, MeanTable[hs]>> : h \in ScoreValues, hs \in ScoreSeqs \ {<<>>} } |->
     ScoreGt(p[1], p[2])] @@ <<>>

-----------------------------------------------------------------------------
(* process_excel, after the scores.                                        *)

\* the non-NaN SCOREs of the rows of group g, in row order
ScoreColumn(rows) == Eager([i \in 1..Len(rows) |-> rows[i]["SCORE"].n])

\* variant of GroupScores that leaves the SCOREs of 0 out of the mean
GroupScoresNonZero(rows, g) ==
  ScoreColumn(Mask(rows, [i \in 1..Len(rows) |->
                            /\ rows[i]["GROUP"] = g
                            /\ ~IsNaN(rows[i]["SCORE"])
                            /\ rows[i]["SCORE"].n # 0]))

GroupScores(rows, g) ==
  ScoreColumn(Mask(rows, [i \in 1..Len(rows) |->
                            rows[i]["GROUP"] = g /\ ~IsNaN(rows[i]["SCORE"])]))

\* df.groupby('GROUP')['SCORE'].mean(), as a function of the group
GroupAvgScores(rows) ==
  Eager([g \in {rows[i]["GROUP"] : i \in 1..Len(rows)} |-> MeanOfScores(GroupScores(rows, g))])

\* pd.merge(df, group_avg_scores, on='GROUP', how='left')
Merge(rows, avg) == SetCol(rows, "AVG_SCORE", [i \in 1..Len(rows) |-> avg[rows[i]["GROUP"]]])

MergeAvg(rows) == Merge(rows, GroupAvgScores(rows))

\* one element of df['SCORE'] > df['AVG_SCORE']; a comparison with NaN is false
AboveAvg(r) ==
  /\ ~IsNaN(r["SCORE"])
  /\ r["AVG_SCORE"].k = "dbl"
  /\ GtTable[<<r["SCORE"].n, r["AVG_SCORE"]>>]

\* df[df['SCORE'] > df['AVG_SCORE']]
FilterAboveAvg(rows) == Mask(rows, [i \in 1..Len(rows) |-> AboveAvg(rows[i])])

\* the order of sort_values(by=['OVACLS', 'NEIGHBORHOOD', 'SCORE'],
\*                          ascending=[True, True, False])
SortsBefore(a, b) ==
  \/ a["OVACLS"].n < b["OVACLS"].n
  \/ /\ a["OVACLS"].n = b["OVACLS"].n
     /\ \/ a["NEIGHBORHOOD"].n < b["NEIGHBORHOOD"].n
        \/ /\ a["NEIGHBORHOOD"].n = b["NEIGHBORHOOD"].n
           /\ a["SCORE"].n > b["SCORE"].n

\* r placed behind every row that does not sort after it
InsertAt(sorted, r, n) ==
  SubSeq(sorted, 1, n) \o <<r>> \o SubSeq(sorted, n + 1, Len(sorted))

\* variant of InsertSorted that places r before the rows equal to it
InsertSortedBeforeTies(sorted, r) ==
  InsertAt(sorted, r, Cardinality({i \in 1..Len(sorted) : SortsBefore(sorted[i], r)}))

InsertSorted(sorted, r) ==
  InsertAt(sorted, r, Cardinality({i \in 1..Len(sorted) : ~SortsBefore(r, sorted[i])}))

\* a sort by several keys is a stable sort (lexsort over the key codes)
RECURSIVE SortValues(_)
SortValues(rows) ==
  IF rows = <<>> THEN <<>>
  ELSE InsertSorted(SortValues(SubSeq(rows, 1, Len(rows) - 1)), rows[Len(rows)])

LeadColumns == <<"SCORE", "GROUP", "AVG_SCORE">>

\* variant of ReorderColumns that leaves the columns where the frame has them
ColumnsAsInFrame(columns) == columns

\* ["SCORE", "GROUP", "AVG_SCORE"] + [the other columns, in their order]
ReorderColumns(columns) ==
  LeadColumns \o Mask(columns, [i \in 1..Len(columns) |-> columns[i] \notin Range(LeadColumns)])

-----------------------------------------------------------------------------
(* The statistics kept in the session.                                     *)

RECURSIVE SortedInts(_)
SortedInts(S) ==
  IF S = {} THEN <<>>
  ELSE LET lo == CHOOSE x \in S : \A y \in S : x <= y
       IN  <<lo>> \o SortedInts(S \ {lo})

PairLeq(a, b) == a[1] < b[1] \/ (a[1] = b[1] /\ a[2] <= b[2])

RECURSIVE SortedPairs(_)
SortedPairs(S) ==
  IF S = {} THEN <<>>
  ELSE LET lo == CHOOSE x \in S : \A y \in S : PairLeq(x, y)
       IN  <<lo>> \o SortedPairs(S \ {lo})

CountOvacls(rows, o) == Cardinality({i \in 1..Len(rows) : rows[i]["OVACLS"].n = o})

InDetail(r, key) == r["OVACLS"].n = key[1] /\ r["NEIGHBORHOOD"].n = key[2]

DetailRows(rows, key) == Mask(rows, [i \in 1..Len(rows) |-> InDetail(rows[i], key)])

OvaclsRecord(o, before, after) ==
  [OVACLS         |-> o,
   Records_Before |-> CountOvacls(before, o),
   Records_After  |-> CountOvacls(after, o)]

OvaclsRecords(keys, before, after) ==
  Eager([j \in 1..Len(keys) |-> OvaclsRecord(keys[j], before, after)])

\* before_ovacls_stats merged with after_ovacls_stats on OVACLS (outer),
\* missing counts filled with 0, sorted by OVACLS
CombinedOvaclsStats(before, after) ==
  OvaclsRecords(SortedInts({before[i]["OVACLS"].n : i \in 1..Len(before)}), before, after)

MinOf(S) == CHOOSE x \in S : \A y \in S : x <= y

MaxOf(S) == CHOOSE x \in S : \A y \in S : x >= y

\* count, mean, min and max of the SCOREs hs kept in one group, 0 for none
DetailRecord(key, countBefore, hs) ==
  [OVACLS        |-> key[1],
   NEIGHBORHOOD  |-> key[2],
   Count_Before  |-> countBefore,
   Count_After   |-> Len(hs),
   Average_SCORE |-> IF hs = <<>> THEN Dbl(DZero) ELSE MeanOfScores(hs),
   Min_SCORE     |-> IF hs = <<>> THEN 0 ELSE MinOf(Range(hs)),
   Max_SCORE     |-> IF hs = <<>> THEN 0 ELSE MaxOf(Range(hs))]

DetailRecords(keys, before, after) ==
  Eager([j \in 1..Len(keys) |->
           DetailRecord(keys[j], Len(DetailRows(before, keys[j])),
                        ScoreColumn(DetailRows(after, keys[j])))])

\* before_detailed_stats merged with the count, mean, min and max of SCORE
\* of the rows kept, per (OVACLS, NEIGHBORHOOD); missing values filled with 0
CombinedDetailedStats(before, after) ==
  DetailRecords(SortedPairs({<<before[i]["OVACLS"].n, before[i]["NEIGHBORHOOD"].n>> :
                               i \in 1..Len(before)}),
                before, after)

-----------------------------------------------------------------------------
(* The records passed to the logger, one per stage (the lines that dump   *)
(* rows and per-group figures are left out).                               *)

Entry(lvl, msg, n) == [lvl |-> lvl, msg |-> msg, n |-> n, cols |-> <<>>]

ColsEntry(lvl, msg, cols) == [lvl |-> lvl, msg |-> msg, n |-> <<>>, cols |-> cols]

LogLoad(f) ==
  << Entry("INFO", "=== File processing started ===", <<>>),
     Entry("INFO", "Loading data from Excel file...", <<>>),
     Entry("INFO", "Loaded rows of data.", <<Len(f.rows)>>),
     ColsEntry("INFO", "Checking required columns", required_columns) >>

LogFailure(msg, cols) ==
  << ColsEntry("ERROR", "Error processing file: " \o msg, cols),
     Entry("INFO", "=== File processing finished with errors ===", <<>>) >>

LogRestrict(initial, kept) ==
  << Entry("INFO", "All required columns found.", <<>>),
     Entry("INFO", "Converting OVACLS to numeric format...", <<>>),
     Entry("INFO", "OVACLS conversion completed successfully.", <<>>),
     Entry("INFO", "Filtered by OVACLS: kept, out of, removed",
           <<kept, initial, initial - kept>>) >>

ZeroSqFt(rows) ==
  Cardinality({i \in 1..Len(rows) :
                 rows[i]["BUILDING_SQ_FT"].k = "num" /\ rows[i]["BUILDING_SQ_FT"].n = 0})

LogScore(zeros) ==
      << Entry("INFO", "Converting CURRENT_BUILDING and BUILDING_SQ_FT to numeric format...", <<>>),
         Entry("INFO", "Conversion completed successfully.", <<>>) >>
      \o (IF zeros > 0
          THEN << Entry("WARNING", "Found rows with BUILDING_SQ_FT = 0. Replacing with 0.0001.",
                        <<zeros>>) >>
          ELSE <<>>)
      \o << Entry("INFO", "Calculating SCORE for each row...", <<>>),
            Entry("INFO", "SCORE calculation completed.", <<>>) >>

LogFilter(groups, before, after) ==
  << Entry("INFO", "Created unique groups.", <<groups>>),
     Entry("INFO", "Average SCORE for group added to each record.", <<>>),
     Entry("INFO", "Filtered by average SCORE: kept, out of, removed",
           <<after, before, before - after>>),
     Entry("INFO", "Sorting completed.", <<>>),
     Entry("INFO", "Columns SCORE, GROUP, and AVG_SCORE moved to the beginning of the table.", <<>>),
     Entry("INFO", "Processing completed successfully. Final result: records.", <<after>>),
     Entry("INFO", "=== File processing finished ===", <<>>) >>

-----------------------------------------------------------------------------
(* process_excel as a whole: what it returns or raises, its local df, the  *)
(* statistics it stores and the records it logs.  The pin argument is      *)
(* accepted and never read.                                                *)

NoError == [wrapper |-> "", msg |-> "", cols |-> <<>>]

\* the except branch: the error is logged and re-raised as
\* Exception("Error processing Excel file: " + str(e))
Raised(msg, cols, log) ==
  [status |-> "raised",
   error  |-> [wrapper |-> "Error processing Excel file: ", msg |-> msg, cols |-> cols],
   df     |-> <<>>,
   result |-> <<>>,
   stats  |-> <<>>,
   log    |-> log \o LogFailure(msg, cols)]

\* a column is float64 once it holds a NaN or a fraction
IsFloatColumn(rows, c) == \E i \in 1..Len(rows) : IsNaN(rows[i][c]) \/ rows[i][c].d # 1

\* the stages pass their frames on as arguments: lines 195 to 268
Finish(columns, grouped, merged, above, log) ==
  [status |-> "returned",
   error  |-> NoError,
   df     |-> <<[columns |-> columns, rows |-> merged]>>,
   result |-> <<[columns |-> ReorderColumns(columns), rows |-> above]>>,
   stats  |-> <<CombinedOvaclsStats(grouped, above), CombinedDetailedStats(grouped, above)>>,
   log    |-> log \o LogFilter(Cardinality({grouped[i]["GROUP"] : i \in 1..Len(grouped)}),
                               Len(merged), Len(above))]

\* lines 161 to 221
Annotate(columns, grouped, merged, log) ==
  Finish(columns, grouped, merged, SortValues(FilterAboveAvg(merged)), log)

\* lines 94 to 159
Score(columns, isFloat, numeric, log) ==
  Annotate(columns \o <<"SCORE", "GROUP", "AVG_SCORE">>,
           AddGroup(AddScore(ReplaceZeroSqFt(numeric)), isFloat),
           MergeAvg(AddGroup(AddScore(ReplaceZeroSqFt(numeric)), isFloat)),
           log \o LogScore(ZeroSqFt(numeric)))

\* variant of Filter without the test for an empty restriction
FilterWithoutEmptyCheck(uploaded_file, coerced, restricted, loaded) ==
  Score(uploaded_file.columns, IsFloatColumn(coerced, "OVACLS"),
        CoerceBuilding(restricted),
        loaded \o LogRestrict(Len(coerced), Len(restricted)))

\* lines 76 to 92
Filter(uploaded_file, coerced, restricted, loaded) ==
  IF restricted = <<>>
  THEN Raised("No records found with allowed OVACLS codes", <<>>,
              loaded \o LogRestrict(Len(coerced), 0)
                     \o <<Entry("ERROR", "No records left after filtering by allowed OVACLS codes!", <<>>)>>)
  ELSE Score(uploaded_file.columns, IsFloatColumn(coerced, "OVACLS"),
             CoerceBuilding(restricted),
             loaded \o LogRestrict(Len(coerced), Len(restricted)))

\* lines 40 to 74
CheckColumns(uploaded_file, missing, loaded) ==
  IF missing # <<>>
  THEN Raised("Missing columns: ", missing,
              loaded \o <<ColsEntry("ERROR", "Missing required columns: ", missing)>>)
  ELSE Filter(uploaded_file, CoerceOvacls(uploaded_file.rows),
              Restrict(CoerceOvacls(uploaded_file.rows)), loaded)

ProcessExcel(uploaded_file, pin_arg) ==
  CheckColumns(uploaded_file, MissingColumns(uploaded_file.columns), LogLoad(uploaded_file))

-----------------------------------------------------------------------------
(* Logging and the session.                                                *)

\* logging.basicConfig(..., stream=log_output): adds a handler on log_output
\* only when the root logger has none yet
BasicConfig(handlers, log_output) ==
  IF handlers = <<>> THEN <<log_output>> ELSE handlers

\* every record goes to the streams of the root logger's handlers
Written(handlers, contents, log) ==
  [h \in Range(handlers) |->
     (IF h \in DOMAIN contents THEN contents[h] ELSE <<>>) \o log]

\* log_output.getvalue(): what was written to this call's own StringIO
GetValue(contents, log_output) ==
  IF log_output \in DOMAIN contents THEN contents[log_output] ELSE <<>>

Put(state, key, value) ==
  [x \in DOMAIN state \cup {key} |-> IF x = key THEN value ELSE state[x]]

\* variant of StoreSession in which a failing call empties the statistics
StoreSessionResettingStats(state, r, text) ==
  Put(Put(Put(state, "combined_ovacls_stats", IF r.status = "returned" THEN r.stats[1] ELSE <<>>),
          "combined_detailed_stats", IF r.status = "returned" THEN r.stats[2] ELSE <<>>),
      "process_log", text)

\* the assignments to st.session_state of one call
StoreSession(state, r, text) ==
  LET withStats ==
        IF r.status = "returned"
        THEN Put(Put(state, "combined_ovacls_stats", r.stats[1]),
                 "combined_detailed_stats", r.stats[2])
        ELSE state
  IN  Put(withStats, "process_log", text)

\* one call of process_excel on the uploaded sheet
Call(pin_arg) ==
  \E r \in {ProcessExcel(file, pin_arg)} :
    LET k        == invocations + 1
        handlers == BasicConfig(rootHandlers, k)
        contents == Written(handlers, streams, r.log)
    IN  /\ pc = "uploaded"
        /\ pc' = "done"
        /\ pin' = pin_arg
        /\ invocations' = k
        /\ rootHandlers' = handlers
        /\ streams' = contents
        /\ emitted' = r.log
        /\ session_state' = StoreSession(session_state, r, GetValue(contents, k))
        /\ df' = r.df
        /\ result' = r.result
        /\ outcome' = [status |-> r.status, error |-> r.error]
        /\ UNCHANGED file

\* what the page shows after result_df = process_excel(uploaded_file)
Shown(status, frame) ==
  IF status = "raised" THEN "error"
  ELSE IF Len(frame[1].rows) > 0 THEN "success"
  ELSE "warning"

-----------------------------------------------------------------------------
(* The state machine.                                                      *)

Fresh ==
  /\ pc = "uploaded"
  /\ pin = <<>>
  /\ df = <<>>
  /\ result = <<>>
  /\ outcome = [status |-> "none", error |-> NoError]
  /\ page = "idle"
  /\ session_state = [x \in {} |-> <<>>]
  /\ rootHandlers = <<>>
  /\ streams = <<>>
  /\ emitted = <<>>
  /\ invocations = 0

Init == file \in Files /\ Fresh

InitSession == file \in SessionFiles /\ Fresh

\* app.py, the "Process Data" button
ProcessData ==
  /\ Call(<<>>)
  /\ page' = Shown(outcome'.status, result')

\* a direct call process_excel(uploaded_file, pin)
CallWithPin ==
  \E p \in PinArgs :
    /\ Call(p)
    /\ UNCHANGED page

\* another sheet is uploaded: the script reruns, the page shows no result;
\* the session and the logging configuration of the process stay
Upload ==
  \E f \in SessionFiles :
    /\ pc = "done"
    /\ invocations < MaxInvocations
    /\ file' = f
    /\ pc' = "uploaded"
    /\ page' = "idle"
    /\ pin' = <<>>
    /\ df' = <<>>
    /\ result' = <<>>
    /\ outcome' = [status |-> "none", error |-> NoError]
    /\ emitted' = <<>>
    /\ UNCHANGED <<session_state, rootHandlers, streams, invocations>>

Next == ProcessData

NextSession == ProcessData \/ CallWithPin \/ Upload

Spec == Init /\ [][Next]_vars

SpecSession == InitSession /\ [][NextSession]_vars

-----------------------------------------------------------------------------
(* What the properties below read from a state.                            *)

Done == pc = "done"

Returned == pc = "done" /\ outcome.status = "returned"

\* the table returned, and the frame the means were computed on
ResultRows == result[1].rows

DfRows == df[1].rows

\* the row of the sheet a row of a frame came from
SourceRow(r) == file.rows[r["PIN"].n]

HasAllColumns == Range(required_columns) \subseteq Range(file.columns)

\* the numbers of the sheet's rows whose OVACLS, read as a number, is in the list
AllowedSource ==
  { i \in 1..Len(file.rows) :
      /\ file.rows[i]["OVACLS"].k \in {"num", "str"}
      /\ file.rows[i]["OVACLS"].d = 1
      /\ file.rows[i]["OVACLS"].n \in ALLOWED_OVACLS }

Pins(rows) == { rows[i]["PIN"].n : i \in 1..Len(rows) }

SameKey(a, b) ==
  a["OVACLS"].n = b["OVACLS"].n /\ a["NEIGHBORHOOD"].n = b["NEIGHBORHOOD"].n

\* the rows of the frame that share r's OVACLS and NEIGHBORHOOD, r included
Peers(r) == Mask(DfRows, [i \in 1..Len(DfRows) |-> SameKey(DfRows[i], r)])

\* those of them that have a SCORE
ScoredPeers(r) ==
  Mask(DfRows, [i \in 1..Len(DfRows) |-> SameKey(DfRows[i], r) /\ ~IsNaN(DfRows[i]["SCORE"])])

NotConvertible(c) == c.k = "text"

HasEntry(log, msg) == \E i \in 1..Len(log) : log[i].msg = msg

-----------------------------------------------------------------------------
(* C1 *)

\* C1: every row of the returned table has SCORE strictly above AVG_SCORE,
\* and a group whose scored records all hold the same SCORE contributes no
\* row (no value exceeds the mean of equal values).
C1_AboveMeanTiesExcluded ==
  Returned =>
    /\ \A i \in 1..Len(ResultRows) :
         /\ ~IsNaN(ResultRows[i]["SCORE"])
         /\ ResultRows[i]["AVG_SCORE"].k = "dbl"
         /\ ScoreGt(ResultRows[i]["SCORE"].n, ResultRows[i]["AVG_SCORE"])
    /\ \A i \in 1..Len(DfRows) :
         (\A j \in 1..Len(ScoredPeers(DfRows[i])) :
            ScoredPeers(DfRows[i])[j]["SCORE"].n = ScoredPeers(DfRows[i])[1]["SCORE"].n)
         => DfRows[i]["PIN"].n \notin Pins(ResultRows)

-----------------------------------------------------------------------------
(* C2 *)

\* the mean of the SCOREs of all the rows: none when one of them has no SCORE
MeanOfAll(rows) ==
  IF \E i \in 1..Len(rows) : IsNaN(rows[i]["SCORE"]) THEN NaNDbl
  ELSE MeanOfScores(ScoreColumn(rows))

\* the same with a missing SCORE counted as 0
MeanZeroFilled(rows) == MeanOfScores(ScoreColumn(rows))

\* C2 as stated: AVG_SCORE is the mean of SCORE over exactly the restricted
\* records that share the key, every one of them counted (a record without
\* a SCORE makes the mean undefined, or counts as 0).
C2_MeanOverEveryPeer ==
  Returned =>
    \A i \in 1..Len(DfRows) :
      DfRows[i]["AVG_SCORE"] \in {MeanOfAll(Peers(DfRows[i])), MeanZeroFilled(Peers(DfRows[i]))}

\* C2, amended: the frame the means are computed on holds exactly the
\* restricted records; AVG_SCORE is the floating-point mean of SCORE over
\* the records that share the key and have a SCORE (those with SCORE 0
\* included, those without a SCORE left out; missing when none has one); the
\* returned rows carry the mean computed before the filter.
C2_MeanOverScoredPeers ==
  Returned =>
    /\ Pins(DfRows) = AllowedSource
    /\ \A i \in 1..Len(DfRows) :
         DfRows[i]["AVG_SCORE"] = MeanOfScores(ScoreColumn(ScoredPeers(DfRows[i])))
    /\ \A i \in 1..Len(ResultRows) : \E j \in 1..Len(DfRows) :
         /\ DfRows[j]["PIN"] = ResultRows[i]["PIN"]
         /\ DfRows[j]["AVG_SCORE"] = ResultRows[i]["AVG_SCORE"]

\* a group with a SCORE of 0, a record without a SCORE and a returned record
C2_Witness ==
  /\ Returned
  /\ ResultRows # <<>>
  /\ \E i, j \in 1..Len(DfRows) :
       /\ SameKey(DfRows[i], ResultRows[1]) /\ DfRows[i]["SCORE"] = Num(0, 100)
       /\ SameKey(DfRows[j], ResultRows[1]) /\ IsNaN(DfRows[j]["SCORE"])

-----------------------------------------------------------------------------
(* C3 *)

\* C3: every returned row, and every row of the frame the means are
\* computed on, comes from a row of the sheet whose OVACLS, read as a
\* number, is one of 201..212, 234, 295.
C3_OnlyAllowedOvacls ==
  Returned =>
    /\ Pins(ResultRows) \subseteq AllowedSource
    /\ Pins(DfRows) \subseteq AllowedSource
    /\ \A i \in 1..Len(DfRows) : DfRows[i]["OVACLS"].n \in ALLOWED_OVACLS

\* a sheet with a row outside the list, and a table returned from it
C3_Witness ==
  /\ Returned
  /\ ResultRows # <<>>
  /\ \E i \in 1..Len(file.rows) : i \notin AllowedSource /\ file.rows[i]["OVACLS"].k = "num"

-----------------------------------------------------------------------------
(* C4 *)

\* C4: SCORE is 0 for every record whose BUILDING_SQ_FT, read as a number,
\* is zero or negative, and no returned row has a missing SCORE.
C4_ZeroScoreForNonPositiveArea ==
  Returned =>
    /\ \A i \in 1..Len(DfRows) :
         (SourceRow(DfRows[i])["BUILDING_SQ_FT"].k \in {"num", "str"}
            /\ SourceRow(DfRows[i])["BUILDING_SQ_FT"].n <= 0)
         => DfRows[i]["SCORE"] = Num(0, 100)
    /\ \A i \in 1..Len(ResultRows) : ~IsNaN(ResultRows[i]["SCORE"])

-----------------------------------------------------------------------------
(* C5 *)

\* C5: the returned rows are in ascending order of OVACLS, then of
\* NEIGHBORHOOD, then in descending order of SCORE; rows equal in all three
\* keep the order they had in the sheet.
C5_SortedStable ==
  Returned =>
    \A i, j \in 1..Len(ResultRows) :
      i < j =>
        \/ ResultRows[i]["OVACLS"].n < ResultRows[j]["OVACLS"].n
        \/ /\ ResultRows[i]["OVACLS"].n = ResultRows[j]["OVACLS"].n
           /\ ResultRows[i]["NEIGHBORHOOD"].n < ResultRows[j]["NEIGHBORHOOD"].n
        \/ /\ SameKey(ResultRows[i], ResultRows[j])
           /\ ResultRows[i]["SCORE"].n > ResultRows[j]["SCORE"].n
        \/ /\ SameKey(ResultRows[i], ResultRows[j])
           /\ ResultRows[i]["SCORE"].n = ResultRows[j]["SCORE"].n
           /\ ResultRows[i]["PIN"].n < ResultRows[j]["PIN"].n

\* two returned rows equal in all three keys
C5_Witness ==
  /\ Returned
  /\ \E i, j \in 1..Len(ResultRows) :
       /\ i < j
       /\ SameKey(ResultRows[i], ResultRows[j])
       /\ ResultRows[i]["SCORE"] = ResultRows[j]["SCORE"]

-----------------------------------------------------------------------------
(* C6 *)

\* C6: when the sheet lacks a required column the call raises, returns no
\* table, has restricted and scored nothing, and the error names every
\* required column the sheet lacks.
C6_MissingColumnsNamed ==
  (Done /\ ~HasAllColumns) =>
    /\ outcome.status = "raised"
    /\ outcome.error.msg = "Missing columns: "
    /\ Range(outcome.error.cols) = Range(required_columns) \ Range(file.columns)
    /\ result = <<>>
    /\ df = <<>>
    /\ ~HasEntry(emitted, "Converting OVACLS to numeric format...")
    /\ ~HasEntry(emitted, "Calculating SCORE for each row...")
    /\ page = "error"

\* a sheet that lacks two or more required columns, after the call
C6_Witness ==
  /\ Done
  /\ Cardinality(Range(required_columns) \ Range(file.columns)) >= 2
  /\ outcome.status = "raised"

-----------------------------------------------------------------------------
(* C7 *)

\* C7: with every required column present, the call raises when no record
\* has an allowed OVACLS; otherwise it returns, and when the filter on the
\* group mean leaves no record the table returned is empty and the page
\* shows the warning (the success message when it is not empty).
C7_EmptyRestrictionRaises ==
  (Done /\ HasAllColumns) =>
    IF AllowedSource = {}
    THEN /\ outcome.status = "raised"
         /\ outcome.error.msg = "No records found with allowed OVACLS codes"
         /\ result = <<>>
         /\ page = "error"
    ELSE /\ outcome.status = "returned"
         /\ page = (IF ResultRows = <<>> THEN "warning" ELSE "success")

\* allowed records none of which is above its group's mean
C7_Witness ==
  /\ Returned
  /\ AllowedSource # {}
  /\ ResultRows = <<>>
  /\ page = "warning"

-----------------------------------------------------------------------------
(* C8 *)

\* C8: after every call, the first of the process or a later one, returned
\* or raised, session_state['process_log'] holds the records that call
\* logged.
C8_LogOfThisInvocation ==
  Done => ("process_log" \in DOMAIN session_state /\ session_state["process_log"] = emitted)

-----------------------------------------------------------------------------
(* C9 *)

\* C9: a call with a pin returns the row of that PIN first, and after it
\* only rows of the same OVACLS and NEIGHBORHOOD whose SCORE is below the
\* SCORE of that row.
C9_PinPipeline ==
  (Done /\ pin # <<>> /\ HasAllColumns /\ pin[1] \in 1..Len(file.rows)) =>
    /\ outcome.status = "returned"
    /\ ResultRows # <<>>
    /\ ResultRows[1]["PIN"].n = pin[1]
    /\ \A i \in 2..Len(ResultRows) :
         /\ SameKey(ResultRows[i], ResultRows[1])
         /\ ResultRows[i]["SCORE"].n < ResultRows[1]["SCORE"].n

-----------------------------------------------------------------------------
(* C10 *)

\* C10 as stated: a text value in CURRENT_BUILDING or BUILDING_SQ_FT does
\* not abort the call, and the record's SCORE is 0.
C10_NonConvertibleScoresZero ==
  (Done /\ HasAllColumns /\ AllowedSource # {}) =>
    /\ outcome.status = "returned"
    /\ \A i \in 1..Len(DfRows) :
         (NotConvertible(SourceRow(DfRows[i])["CURRENT_BUILDING"])
            \/ NotConvertible(SourceRow(DfRows[i])["BUILDING_SQ_FT"]))
         => DfRows[i]["SCORE"] = Num(0, 100)

\* the SCOREs of the scored rows of r's group other than r, in row order
OtherScores(r) ==
  ScoreColumn(Mask(DfRows, [i \in 1..Len(DfRows) |->
                              /\ SameKey(DfRows[i], r)
                              /\ DfRows[i]["PIN"] # r["PIN"]
                              /\ ~IsNaN(DfRows[i]["SCORE"])]))

\* C10, amended: a text value in CURRENT_BUILDING or BUILDING_SQ_FT does not
\* abort the call and becomes a missing value.  A record whose
\* BUILDING_SQ_FT is text has SCORE 0, and that 0 is one of the values of
\* its group's mean.  A record whose CURRENT_BUILDING is text and whose
\* BUILDING_SQ_FT is a number >= 0 has no SCORE: its group's mean is the
\* mean of the other records' SCOREs, and the record is never returned.
C10_NonConvertibleMissing ==
  (Done /\ HasAllColumns /\ AllowedSource # {}) =>
    /\ outcome.status = "returned"
    /\ \A i \in 1..Len(DfRows) :
         /\ NotConvertible(SourceRow(DfRows[i])["BUILDING_SQ_FT"]) =>
              /\ IsNaN(DfRows[i]["BUILDING_SQ_FT"])
              /\ DfRows[i]["SCORE"] = Num(0, 100)
              /\ DfRows[i]["AVG_SCORE"].k = "dbl"
              /\ \E hs \in ScoreSeqs :
                   /\ Len(hs) = Len(OtherScores(DfRows[i])) + 1
                   /\ \E k \in 1..Len(hs) :
                        /\ hs[k] = 0
                        /\ OtherScores(DfRows[i]) =
                             SubSeq(hs, 1, k - 1) \o SubSeq(hs, k + 1, Len(hs))
                   /\ DfRows[i]["AVG_SCORE"] = MeanOfScores(hs)
         /\ (NotConvertible(SourceRow(DfRows[i])["CURRENT_BUILDING"])
               /\ ~NotConvertible(SourceRow(DfRows[i])["BUILDING_SQ_FT"])
               /\ SourceRow(DfRows[i])["BUILDING_SQ_FT"].n >= 0) =>
              /\ IsNaN(DfRows[i]["CURRENT_BUILDING"])
              /\ IsNaN(DfRows[i]["SCORE"])
              /\ DfRows[i]["AVG_SCORE"] = MeanOfScores(OtherScores(DfRows[i]))
              /\ DfRows[i]["PIN"].n \notin Pins(ResultRows)

\* a group with a text area, a text CURRENT_BUILDING and a returned record
C10_Witness ==
  /\ Returned
  /\ ResultRows # <<>>
  /\ \E i, j \in 1..Len(DfRows) :
       /\ SameKey(DfRows[i], ResultRows[1])
       /\ NotConvertible(SourceRow(DfRows[i])["BUILDING_SQ_FT"])
       /\ SameKey(DfRows[j], ResultRows[1])
       /\ NotConvertible(SourceRow(DfRows[j])["CURRENT_BUILDING"])

-----------------------------------------------------------------------------
(* C11 *)

\* the returned rows come from distinct rows of the sheet
FromDistinctRows ==
  /\ Pins(ResultRows) \subseteq 1..Len(file.rows)
  /\ \A i, j \in 1..Len(ResultRows) : i # j => ResultRows[i]["PIN"] # ResultRows[j]["PIN"]

\* a returned row has the columns of the sheet and SCORE, GROUP, AVG_SCORE
OnlyDerivedAdded ==
  \A i \in 1..Len(ResultRows) :
    DOMAIN ResultRows[i] = Range(file.columns) \cup {"SCORE", "GROUP", "AVG_SCORE"}

\* C11 as stated: every returned row comes from a distinct row of the sheet,
\* every column of the sheet holds in it the value it holds in the sheet,
\* and only SCORE, GROUP and AVG_SCORE are added.
C11_RowsPassedThrough ==
  Returned =>
    /\ FromDistinctRows
    /\ OnlyDerivedAdded
    /\ \A i \in 1..Len(ResultRows) : \A c \in Range(file.columns) :
         ResultRows[i][c] = SourceRow(ResultRows[i])[c]

\* the number a cell of the sheet is read as, missing for a text
AsNumber(c) == IF c.k = "text" THEN [k |-> "nan", n |-> 0, d |-> 1]
               ELSE [k |-> "num", n |-> c.n, d |-> c.d]

\* C11, amended: every returned row comes from a distinct row of the sheet
\* and only SCORE, GROUP and AVG_SCORE are added; a column other than
\* OVACLS, CURRENT_BUILDING and BUILDING_SQ_FT holds the value it holds in
\* the sheet; these three hold the number the sheet's value is read as (a
\* numeral in text becomes the number, any other text becomes missing), and
\* a BUILDING_SQ_FT of 0 is returned as 0.0001.
C11_RowsCoerced ==
  Returned =>
    /\ FromDistinctRows
    /\ OnlyDerivedAdded
    /\ \A i \in 1..Len(ResultRows) :
         /\ \A c \in Range(file.columns) \ {"OVACLS", "CURRENT_BUILDING", "BUILDING_SQ_FT"} :
              ResultRows[i][c] = SourceRow(ResultRows[i])[c]
         /\ ResultRows[i]["OVACLS"] = AsNumber(SourceRow(ResultRows[i])["OVACLS"])
         /\ ResultRows[i]["CURRENT_BUILDING"] =
              AsNumber(SourceRow(ResultRows[i])["CURRENT_BUILDING"])
         /\ ResultRows[i]["BUILDING_SQ_FT"] =
              IF AsNumber(SourceRow(ResultRows[i])["BUILDING_SQ_FT"]) = [k |-> "num", n |-> 0, d |-> 1]
              THEN [k |-> "num", n |-> 1, d |-> EpsilonInverse]
              ELSE AsNumber(SourceRow(ResultRows[i])["BUILDING_SQ_FT"])

\* a returned row whose BUILDING_SQ_FT is a text in the sheet, with a row
\* of negative area in the same sheet
C11_Witness ==
  /\ Returned
  /\ \E i \in 1..Len(ResultRows) : NotConvertible(SourceRow(ResultRows[i])["BUILDING_SQ_FT"])
  /\ \E i \in 1..Len(file.rows) : file.rows[i]["CURRENT_BUILDING"].n < 0

-----------------------------------------------------------------------------
(* C12 *)

\* C12: the columns of a returned table are SCORE, GROUP, AVG_SCORE and
\* then the columns of the sheet, in the order the sheet has them.
C12_DerivedColumnsLead ==
  Returned =>
    /\ Len(result[1].columns) = Len(file.columns) + 3
    /\ result[1].columns[1] = "SCORE"
    /\ result[1].columns[2] = "GROUP"
    /\ result[1].columns[3] = "AVG_SCORE"
    /\ \A k \in 1..Len(file.columns) : result[1].columns[3 + k] = file.columns[k]
    /\ \A i \in 1..Len(ResultRows) :
         DOMAIN ResultRows[i] = {result[1].columns[k] : k \in 1..Len(result[1].columns)}

\* a table returned from a sheet whose first column is CURRENT_BUILDING and
\* whose last is OVACLS
C12_Witness ==
  /\ Returned
  /\ ResultRows # <<>>
  /\ file.columns[1] = "CURRENT_BUILDING"
  /\ file.columns[Len(file.columns)] = "OVACLS"

-----------------------------------------------------------------------------
(* C13 *)

StatsKeys == {"combined_ovacls_stats", "combined_detailed_stats"}

\* the statistics a session holds, absent keys left absent
StoredStats(state) == [k \in DOMAIN state \cap StatsKeys |-> state[k]]

CountOf(rows, o) == Cardinality({i \in 1..Len(rows) : rows[i]["OVACLS"].n = o})

\* the per-OVACLS statistics are those of the frame and the table given
StatsAreOf(stats, before, after) ==
  /\ {stats[j].OVACLS : j \in 1..Len(stats)} = {before[i]["OVACLS"].n : i \in 1..Len(before)}
  /\ \A j \in 1..Len(stats) :
       /\ stats[j].Records_Before = CountOf(before, stats[j].OVACLS)
       /\ stats[j].Records_After = CountOf(after, stats[j].OVACLS)

\* C13: a call that raises writes session_state['process_log'] and nothing
\* else, so both statistics stay as they were (or stay absent); a call that
\* returns stores its own statistics; an upload writes nothing.  Hence the
\* statistics stored are always those of the last call that returned.
C13_FailureKeepsStats ==
  [][ /\ (pc = "uploaded" /\ pc' = "done" /\ outcome'.status = "raised") =>
           /\ StoredStats(session_state') = StoredStats(session_state)
           /\ DOMAIN session_state' = DOMAIN session_state \cup {"process_log"}
           /\ \A k \in DOMAIN session_state \ {"process_log"} :
                session_state'[k] = session_state[k]
      /\ (pc = "uploaded" /\ pc' = "done" /\ outcome'.status = "returned") =>
           /\ StatsKeys \subseteq DOMAIN session_state'
           /\ StatsAreOf(session_state'["combined_ovacls_stats"], df'[1].rows, result'[1].rows)
      /\ (pc = "done" /\ pc' = "uploaded") => session_state' = session_state
    ]_vars

\* a call that raised after a call that returned rows of OVACLS 201: the
\* statistics stored are not those of the call whose log is stored
C13_Witness ==
  /\ Done
  /\ outcome.status = "raised"
  /\ invocations = 2
  /\ "combined_ovacls_stats" \in DOMAIN session_state
  /\ session_state["combined_ovacls_stats"] # <<>>
====
